---- MODULE Spec2Model ----
(***************************************************************************)
(* Model of tokenizer/wiki_scraper.py: the Wikipedia category crawler.     *)
(*                                                                         *)
(* Strings that the code only copies (language codes) are TLA+ strings.    *)
(* Strings the code takes apart are sequences of tokens:                   *)
(*   - a category name or a subcategory member's title is a sequence of    *)
(*     tokens in which the namespace prefix "Category:" is one token, a    *)
(*     space or an underscore is one token, and a word is one token;       *)
(*   - a page title or an extract text is a sequence of characters.        *)
(* A character is a one-character string; a character that cannot be       *)
(* written in a string is the string "U+" and its code point in four hex   *)
(* digits, e.g. "U+000B".                                                  *)
(***************************************************************************)
EXTENDS Integers, Sequences, FiniteSets, TLC

VARIABLES
    pc,         \* position of main: "call", "crawl", "except", "done"
    pair,       \* index of the (lang, cat) pair main is at, 1..NPairs+1
    max_pages,  \* main's max_pages argument
    depth0,     \* main's depth argument
    stack,      \* call stack of crawl_category frames, top-level call first
    seen_pages, \* the seen_pages set shared by the current call tree
    out,        \* records written to out_fh, in order
    mlog,       \* main's observable steps: calls, handled errors, sleeps
    faults,     \* number of failed api_get calls so far in the run
    unit        \* last direct call of api_get / get_page_extract (unit runs)

vars == <<pc, pair, max_pages, depth0, stack, seen_pages, out, mlog, faults, unit>>

(***************************** program constants ***************************)

RETRY_WAIT == 5
MAX_RETRIES == 3
\* the max_pages and depth arguments of the call of main, line 173
MainMaxPages == 60
MainDepth == 2

(********************************* bounds **********************************)

\* main is also run with every depth argument up to MaxDepth
MaxDepth == 2
\* and with every max_pages argument up to MaxPagesArg
MaxPagesArg == 2
\* number of api_get calls that may exhaust their retries in one run
MaxFaults == 1

(******************************* small helpers *****************************)

Last(s) == s[Len(s)]

Range(s) == {s[i] : i \in 1..Len(s)}

RECURSIVE Flatten(_)
Flatten(ss) == IF ss = <<>> THEN <<>> ELSE Head(ss) \o Flatten(Tail(ss))

\* Python's None for an optional argument or result
None == [isNone |-> TRUE]
Some(v) == [isNone |-> FALSE, v |-> v]

(************************* string functions used ***************************)

CategoryPrefix == "Category:"

\* str.replace("Category:", ""): every occurrence of the token is removed
StripCategory(title) == SelectSeq(title, LAMBDA t : t # CategoryPrefix)

\* f"Category:{category}"
CmTitle(category) == <<CategoryPrefix>> \o category

\* the characters str.strip() removes: those str.isspace() holds of
Whitespace ==
    {"\t", "\n", "U+000B", "\f", "\r", "U+001C", "U+001D", "U+001E",
     "U+001F", " ", "U+0085", "U+00A0", "U+1680", "U+2000", "U+2001",
     "U+2002", "U+2003", "U+2004", "U+2005", "U+2006", "U+2007", "U+2008",
     "U+2009", "U+200A", "U+2028", "U+2029", "U+202F", "U+205F", "U+3000"}

\* str.strip(): leading and trailing whitespace removed
RECURSIVE LStrip(_)
LStrip(s) == IF s # <<>> /\ Head(s) \in Whitespace THEN LStrip(Tail(s)) ELSE s

RECURSIVE RStrip(_)
RStrip(s) ==
    IF s # <<>> /\ Last(s) \in Whitespace THEN RStrip(SubSeq(s, 1, Len(s) - 1)) ELSE s

Strip(s) == RStrip(LStrip(s))

\* title.replace(' ', '_')
Underscored(title) == [i \in DOMAIN title |-> IF title[i] = " " THEN "_" ELSE title[i]]

\* the characters urllib.parse.quote leaves as they are: letters, digits,
\* "_.-~" and its default safe character "/"
QuoteSafe ==
    {"a", "b", "c", "d", "e", "f", "g", "h", "i", "j", "k", "l", "m", "n",
     "o", "p", "q", "r", "s", "t", "u", "v", "w", "x", "y", "z", "A", "B",
     "C", "D", "E", "F", "G", "H", "I", "J", "K", "L", "M", "N", "O", "P",
     "Q", "R", "S", "T", "U", "V", "W", "X", "Y", "Z", "0", "1", "2", "3",
     "4", "5", "6", "7", "8", "9", "_", ".", "-", "~", "/"}

\* "%" and the hex digits of each byte of the UTF-8 encoding, for the other
\* characters of the ASCII range, the whitespace above and three letters
PercentCode(c) ==
    LET codes ==
          {<<"U+0000", "%00">>, <<"U+0001", "%01">>, <<"U+0002", "%02">>,
           <<"U+0003", "%03">>, <<"U+0004", "%04">>, <<"U+0005", "%05">>,
           <<"U+0006", "%06">>, <<"U+0007", "%07">>, <<"U+0008", "%08">>,
           <<"\t", "%09">>, <<"\n", "%0A">>, <<"U+000B", "%0B">>,
           <<"\f", "%0C">>, <<"\r", "%0D">>, <<"U+000E", "%0E">>,
           <<"U+000F", "%0F">>, <<"U+0010", "%10">>, <<"U+0011", "%11">>,
           <<"U+0012", "%12">>, <<"U+0013", "%13">>, <<"U+0014", "%14">>,
           <<"U+0015", "%15">>, <<"U+0016", "%16">>, <<"U+0017", "%17">>,
           <<"U+0018", "%18">>, <<"U+0019", "%19">>, <<"U+001A", "%1A">>,
           <<"U+001B", "%1B">>, <<"U+001C", "%1C">>, <<"U+001D", "%1D">>,
           <<"U+001E", "%1E">>, <<"U+001F", "%1F">>, <<" ", "%20">>,
           <<"!", "%21">>, <<"\"", "%22">>, <<"#", "%23">>,
           <<"$", "%24">>, <<"%", "%25">>, <<"&", "%26">>,
           <<"'", "%27">>, <<"(", "%28">>, <<")", "%29">>,
           <<"*", "%2A">>, <<"+", "%2B">>, <<",", "%2C">>,
           <<":", "%3A">>, <<";", "%3B">>, <<"<", "%3C">>,
           <<"=", "%3D">>, <<">", "%3E">>, <<"?", "%3F">>,
           <<"@", "%40">>, <<"[", "%5B">>, <<"\\", "%5C">>,
           <<"]", "%5D">>, <<"^", "%5E">>, <<"U+0060", "%60">>,
           <<"{", "%7B">>, <<"|", "%7C">>, <<"}", "%7D">>,
           <<"U+007F", "%7F">>, <<"U+0085", "%C2%85">>, <<"U+00A0", "%C2%A0">>,
           <<"U+1680", "%E1%9A%80">>, <<"U+2000", "%E2%80%80">>, <<"U+2001", "%E2%80%81">>,
           <<"U+2002", "%E2%80%82">>, <<"U+2003", "%E2%80%83">>, <<"U+2004", "%E2%80%84">>,
           <<"U+2005", "%E2%80%85">>, <<"U+2006", "%E2%80%86">>, <<"U+2007", "%E2%80%87">>,
           <<"U+2008", "%E2%80%88">>, <<"U+2009", "%E2%80%89">>, <<"U+200A", "%E2%80%8A">>,
           <<"U+2028", "%E2%80%A8">>, <<"U+2029", "%E2%80%A9">>, <<"U+202F", "%E2%80%AF">>,
           <<"U+205F", "%E2%81%9F">>, <<"U+3000", "%E3%80%80">>, <<"U+00E9", "%C3%A9">>,
           <<"U+0448", "%D1%88">>, <<"U+4E2D", "%E4%B8%AD">>}
    IN  (CHOOSE code \in codes : code[1] = c)[2]

\* urllib.parse.quote(s)
Quote(s) == [i \in DOMAIN s |-> IF s[i] \in QuoteSafe THEN s[i] ELSE PercentCode(s[i])]

\* f"https://{lang}.wikipedia.org/wiki/{quote(title.replace(' ', '_'))}"
PageUrl(lang, title) ==
    <<"https://", lang, ".wikipedia.org/wiki/">> \o Quote(Underscored(title))

\* dict.get(key, default) on a JSON object
Get(d, k, default) == IF k \in DOMAIN d THEN d[k] ELSE default

(************************ the remote MediaWiki API *************************)
(* What the servers hold.  Page members carry the page title; subcategory  *)
(* members carry the title with its namespace prefix.  A category's        *)
(* members come in the batches the server cuts them into (one request      *)
(* each, linked by continuation tokens).  Titles are stored with spaces;   *)
(* a title asked for with underscores names the same page.  A page that    *)
(* has text carries its title; the answer for a page id the wiki no longer *)
(* holds carries neither title nor extract.  The Serbian wiki has no       *)
(* category under the three English names main asks for.                   *)

PageMember(id, t) == [pageid |-> id, title |-> t]
SubcatMember(id, n) == [pageid |-> id, title |-> <<CategoryPrefix>> \o n]

WikiEn ==
    [cats |->
        (<<"Physics">> :>
            [page   |-> << <<PageMember(1, <<"P", "1">>), PageMember(2, <<"P", "2">>)>>,
                           <<PageMember(3, <<"P", "3">>), PageMember(7, <<"P", " ", "7">>)>> >>,
             subcat |-> << <<SubcatMember(101, <<"Physics">>),
                             SubcatMember(102, <<"Optics">>)>>,
                           <<SubcatMember(103, <<"Computer", " ", "science">>)>> >>]
      @@ <<"Optics">> :>
            [page   |-> << <<PageMember(2, <<"P", "2">>), PageMember(4, <<"P", "4", "?">>)>> >>,
             subcat |-> << <<SubcatMember(101, <<"Physics">>),
                             SubcatMember(103, <<"Computer", " ", "science">>)>> >>]
      @@ <<"Computer", " ", "science">> :>
            [page   |-> << <<PageMember(4, <<"P", "4", "?">>), PageMember(6, <<"P", "6">>),
                             PageMember(5, <<"P", "5">>)>> >>,
             subcat |-> << <<SubcatMember(102, <<"Optics">>)>> >>]
      @@ <<"Mathematics">> :>
            [page   |-> << <<PageMember(7, <<"P", " ", "7">>)>> >>,
             subcat |-> <<>>]),
     pages |->
        (1 :> <<1, [pageid |-> 1, title |-> <<"P", "1">>, extract |-> <<"H", "i">>]>>
      @@ 2 :> <<2, [pageid |-> 2, title |-> <<"P", "2">>, extract |-> <<" ", "W", "\n">>]>>
      @@ 3 :> <<3, [pageid |-> 3, title |-> <<"P", "3">>, extract |-> <<>>]>>
      @@ 4 :> <<4, [pageid |-> 4, title |-> <<"P", "4", "?">>, extract |-> <<"x">>]>>
      @@ 5 :> <<5, [pageid |-> 5, title |-> <<"P", "5">>, extract |-> <<"\r", "\n", "U+3000">>]>>
      @@ 6 :> <<-1, [title |-> <<"P", "6">>, missing |-> ""]>>
      @@ 7 :> <<7, [pageid |-> 7, title |-> <<"P", " ", "7">>, extract |-> <<"z">>]>>)]

WikiSr == [cats |-> <<>>, pages |-> <<>>]

WikiZh ==
    [cats |->
        (<<"Physics">> :>
            [page   |-> << <<PageMember(1, <<"U+4E2D", "1">>), PageMember(2, <<"Z", "2">>)>> >>,
             subcat |-> << <<SubcatMember(103, <<"Computer", " ", "science">>)>> >>]
      @@ <<"Computer", " ", "science">> :>
            [page   |-> << <<PageMember(1, <<"U+4E2D", "1">>), PageMember(8, <<"Z", "8">>),
                             PageMember(3, <<"Z", "3">>)>> >>,
             subcat |-> <<>>]),
     pages |->
        (1 :> <<1, [pageid |-> 1, title |-> <<"U+4E2D", "1">>, extract |-> <<"\t", "y">>]>>
      @@ 2 :> <<2, [pageid |-> 2, title |-> <<"Z", "2">>, extract |-> <<>>]>>
      @@ 3 :> <<3, [pageid |-> 3, title |-> <<"Z", "3">>, extract |-> <<"W">>]>>
      @@ 8 :> <<8, [pageid |-> 8, missing |-> ""]>>)]

Wiki(lang) == IF lang = "en" THEN WikiEn ELSE IF lang = "sr" THEN WikiSr ELSE WikiZh

\* the server reads the underscores of a title as spaces
Normalized(title) == [i \in DOMAIN title |-> IF title[i] = "_" THEN " " ELSE title[i]]

\* the batches of a category's members of one kind ("page" or "subcat")
Batches(lang, category, cmtype) ==
    IF Normalized(category) \in DOMAIN Wiki(lang).cats
    THEN Wiki(lang).cats[Normalized(category)][cmtype]
    ELSE <<>>

\* list=categorymembers: one batch, and the token of the next one if any
RemoteMembers(lang, params) ==
    LET cmtitle == params.cmtitle
        name    == IF cmtitle # <<>> /\ Head(cmtitle) = CategoryPrefix
                   THEN Tail(cmtitle) ELSE cmtitle
        bs      == Batches(lang, name, params.cmtype)
        k       == IF "cmcontinue" \in DOMAIN params THEN params.cmcontinue ELSE 1
        result  == [query |-> [categorymembers |-> IF k \in 1..Len(bs) THEN bs[k] ELSE <<>>]]
    IN  IF k < Len(bs) THEN result @@ [continue |-> [cmcontinue |-> k + 1]] ELSE result

\* prop=extracts: the pages object, as its (key, page) items in order
RemoteExtract(lang, params) ==
    LET w == Wiki(lang)
        byTitle == {i \in DOMAIN w.pages : /\ w.pages[i][1] > 0
                                           /\ "title" \in DOMAIN w.pages[i][2]
                                           /\ w.pages[i][2].title = Normalized(params.titles)}
    IN  IF "pageids" \in DOMAIN params
        THEN IF params.pageids \in DOMAIN w.pages
             THEN [query |-> [pages |-> <<w.pages[params.pageids]>>]]
             ELSE [batchcomplete |-> ""]
        ELSE IF "titles" \notin DOMAIN params
             THEN [batchcomplete |-> ""]
        ELSE IF byTitle # {}
             THEN [query |-> [pages |-> <<w.pages[CHOOSE i \in byTitle : TRUE]>>]]
             ELSE [query |-> [pages |-> << <<-1, [title |-> Normalized(params.titles), missing |-> ""]>> >>]]

Remote(url, params) ==
    IF "list" \in DOMAIN params THEN RemoteMembers(url[2], params)
    ELSE RemoteExtract(url[2], params)

\* How one HTTP attempt fares: a transport failure or a status code
Outcomes == {[exc |-> FALSE, status_code |-> 200],
             [exc |-> FALSE, status_code |-> 503],
             [exc |-> TRUE,  status_code |-> 0]}

\* A session is what the HTTP layer will answer to the next requests, in order:
\* one answer more than api_get may ever ask for
Sessions == [1..(MAX_RETRIES + 1) -> Outcomes]

\* api_get reads a session up to its first 200 answer and never past attempt
\* MAX_RETRIES: sessions that agree that far give the same call. One session
\* of each such class, the one whose unread answers are all 200
Unread(session, n) ==
    \/ n > MAX_RETRIES
    \/ \E m \in 1..(n - 1) : ~session[m].exc /\ session[m].status_code = 200

CrawlSessions ==
    {session \in Sessions :
        \A n \in DOMAIN session :
            Unread(session, n) => ~session[n].exc /\ session[n].status_code = 200}

\* session.get(url, params=params, ...) for the n-th request of a call
SessionGet(session, url, params, n) ==
    [exc         |-> session[n].exc,
     status_code |-> session[n].status_code,
     json        |-> IF session[n].status_code = 200 THEN Remote(url, params)
                     ELSE [error |-> session[n].status_code]]

(******************************* the functions *****************************)

mw_api_endpoint(lang) == <<"https://", lang, ".wikipedia.org/w/api.php">>

\* The loop of api_get from `attempt` on, `limit` attempts in all.
\* requests: HTTP requests issued; waited: seconds slept
RECURSIVE ApiGetLoop(_, _, _, _, _)
ApiGetLoop(session, url, params, attempt, limit) ==
    IF attempt >= limit
    THEN [raised |-> TRUE, requests |-> attempt, waited |-> attempt * RETRY_WAIT]
    ELSE LET resp == SessionGet(session, url, params, attempt + 1)
         IN  IF ~resp.exc /\ resp.status_code = 200
             THEN [raised |-> FALSE, value |-> resp.json,
                   requests |-> attempt + 1, waited |-> attempt * RETRY_WAIT]
             ELSE ApiGetLoop(session, url, params, attempt + 1, limit)

\* one attempt fewer than MAX_RETRIES
ApiGetOneShort(session, url, params) ==
    ApiGetLoop(session, url, params, 0, MAX_RETRIES - 1)

\* one attempt more than MAX_RETRIES
ApiGetOneMore(session, url, params) ==
    ApiGetLoop(session, url, params, 0, MAX_RETRIES + 1)

api_get(session, url, params) == ApiGetLoop(session, url, params, 0, MAX_RETRIES)

\* the query built with no test that an identifier was given
ExtractParamsNoCheck(pageid, title) ==
    LET base == [action |-> "query", format |-> "json", prop |-> "extracts",
                 explaintext |-> 1, exlimit |-> "1"]
    IN  IF ~pageid.isNone THEN Some(base @@ [pageids |-> pageid.v])
        ELSE IF ~title.isNone THEN Some(base @@ [titles |-> title.v])
        ELSE Some(base)

\* get_page_extract, lines 69-81: the query, or None where ValueError is
\* raised; pageid and title are None or Some(v)
ExtractParams(pageid, title) ==
    LET base == [action |-> "query", format |-> "json", prop |-> "extracts",
                 explaintext |-> 1, exlimit |-> "1"]
    IN  IF ~pageid.isNone THEN Some(base @@ [pageids |-> pageid.v])
        ELSE IF ~title.isNone THEN Some(base @@ [titles |-> title.v])
        ELSE None

\* no key is taken for a missing page
IsMissingNever(pid) == FALSE

\* `str(pid).startswith("-")`
IsMissing(pid) == pid < 0

\* get_page_extract.  error: "" (returned), "ValueError" or "RuntimeError";
\* requests: HTTP requests issued; params: the query sent
get_page_extract(session, url, pageid, title) ==
    LET q == ExtractParams(pageid, title)
    IN  IF q.isNone
        THEN [error |-> "ValueError", requests |-> 0]
        ELSE LET r == api_get(session, url, q.v)
             IN  IF r.raised
                 THEN [error |-> "RuntimeError", requests |-> r.requests, params |-> q.v]
                 ELSE LET pages == Get(Get(r.value, "query", <<>>), "pages", <<>>)
                      IN  [error |-> "", requests |-> r.requests, params |-> q.v,
                           value |->
                              IF pages = <<>> THEN None
                              ELSE LET pid == pages[1][1]
                                       p   == pages[1][2]
                                   IN  IF IsMissing(pid) THEN None
                                       ELSE Some([pageid  |-> Get(p, "pageid", None),
                                                  title   |-> Get(p, "title", None),
                                                  extract |-> Get(p, "extract", <<>>)])]

\* the extract tested without strip()
NoTextUnstripped(info) == info.isNone \/ info.v.extract = <<>>

\* `not info or not info["extract"].strip()`
NoText(info) == info.isNone \/ Strip(info.v.extract) = <<>>

(*************************** get_category_members **************************)
(* The generator's state between two resumptions: the query, the           *)
(* continuation object, the members of the batch not yet yielded, and      *)
(* whether another request follows once they are used up.  sent and got    *)
(* are history: the queries answered so far and the members received.      *)

NewGen(category, cmtype) ==
    [params |-> [action |-> "query", format |-> "json", list |-> "categorymembers",
                 cmtitle |-> CmTitle(category), cmlimit |-> 500, cmtype |-> cmtype],
     cont   |-> <<>>,
     buf    |-> <<>>,
     more   |-> TRUE,
     sent   |-> <<>>,
     got    |-> <<>>]

\* the continuation object is not merged into the query
GenRequestNoToken(gen, session, url) ==
    LET params == gen.params
        r      == api_get(session, url, params)
        ms     == Get(Get(r.value, "query", <<>>), "categorymembers", <<>>)
    IN  IF r.raised
        THEN [raised |-> TRUE, gen |-> gen]
        ELSE [raised |-> FALSE,
              gen |-> [params |-> params,
                       cont   |-> IF "continue" \in DOMAIN r.value
                                  THEN r.value.continue ELSE gen.cont,
                       buf    |-> ms,
                       more   |-> "continue" \in DOMAIN r.value,
                       sent   |-> Append(gen.sent, params),
                       got    |-> gen.got \o ms]]

\* the loop is not left when the answer carries no token
GenRequestNoBreak(gen, session, url) ==
    LET params == gen.cont @@ gen.params
        r      == api_get(session, url, params)
        ms     == Get(Get(r.value, "query", <<>>), "categorymembers", <<>>)
    IN  IF r.raised
        THEN [raised |-> TRUE, gen |-> gen]
        ELSE [raised |-> FALSE,
              gen |-> [params |-> params,
                       cont   |-> IF "continue" \in DOMAIN r.value
                                  THEN r.value.continue ELSE gen.cont,
                       buf    |-> ms,
                       more   |-> TRUE,
                       sent   |-> Append(gen.sent, params),
                       got    |-> gen.got \o ms]]

\* One turn of `while True`: params.update(cont), api_get, and the continue test
GenRequest(gen, session, url) ==
    LET params == gen.cont @@ gen.params
        r      == api_get(session, url, params)
        ms     == Get(Get(r.value, "query", <<>>), "categorymembers", <<>>)
    IN  IF r.raised
        THEN [raised |-> TRUE, gen |-> gen]
        ELSE [raised |-> FALSE,
              gen |-> [params |-> params,
                       cont   |-> IF "continue" \in DOMAIN r.value
                                  THEN r.value.continue ELSE gen.cont,
                       buf    |-> ms,
                       more   |-> "continue" \in DOMAIN r.value,
                       sent   |-> Append(gen.sent, params),
                       got    |-> gen.got \o ms]]

(****************************** crawl_category *****************************)

\* the seen test left out
AlreadySeenNever(pageid, seen) == FALSE

\* `if pageid in seen_pages`
AlreadySeen(pageid, seen) == pageid \in seen

\* the cap tested with > in place of >=
CapReachedLate(pages_count, max_pages_per_cat) == pages_count > max_pages_per_cat

\* the cap never stops the page loop
CapReachedNever(pages_count, max_pages_per_cat) == FALSE

\* `if pages_count >= max_pages_per_cat`
CapReached(pages_count, max_pages_per_cat) == pages_count >= max_pages_per_cat

\* the cycle test against the parent alone
InPathParentOnly(subcat_title, category_path) == subcat_title = Last(category_path)

\* `if subcat_title in category_path`
InPath(subcat_title, category_path) == subcat_title \in Range(category_path)

\* the depth tested with >= in place of >
MayDescendAtZero(depth) == depth >= 0

\* `if depth > 0`
MayDescend(depth) == depth > 0

\* the page ids the server lists for a category, in order
MemberIds(lang, category) ==
    LET ms == Flatten(Batches(lang, category, "page"))
    IN  [i \in 1..Len(ms) |-> ms[i].pageid]

\* seen_pages carried over from the pair before
KeptSeen(seen) == seen

\* `if seen_pages is None: seen_pages = set()`, main passing no seen_pages
NewSeenPages(seen) == {}

\* the recursive call given the depth of its caller
SameDepth(depth) == depth

\* `depth=depth - 1` of the recursive call
ChildDepth(depth) == depth - 1

\* the page written and not remembered
SeenAfterWriteForgets(seen, pageid) == seen

\* `seen_pages.add(pageid)`
SeenAfterWrite(seen, pageid) == seen \cup {pageid}

\* an invocation that goes down into the subcategories before its pages
FrameDescendsFirst(category, lang, max_pages_per_cat, depth, category_path, failing, seen) ==
    [category          |-> category,
     lang              |-> lang,
     max_pages_per_cat |-> max_pages_per_cat,
     depth             |-> depth,
     category_path     |-> category_path,
     pages_count       |-> 0,
     phase             |-> "subcats",
     gen               |-> NewGen(category, "subcat"),
     visited           |-> <<>>,
     failing           |-> failing,
     entry_seen        |-> seen,
     printed           |-> <<>>,
     absent            |-> {},
     late              |-> [listing |-> 0, extract |-> 0]]

\* A frame of crawl_category on entry.  failing and entry_seen are history:
\* the members whose extract fetch will exhaust its retries in this
\* invocation, and seen_pages as it was on entry.  So are printed (the
\* members of the "Failed to fetch page" lines), absent (the members
\* get_page_extract returned None for) and late (the calls made for page
\* members, by kind, while pages_count was at the cap).
Frame(category, lang, max_pages_per_cat, depth, category_path, failing, seen) ==
    [category          |-> category,
     lang              |-> lang,
     max_pages_per_cat |-> max_pages_per_cat,
     depth             |-> depth,
     category_path     |-> category_path,
     pages_count       |-> 0,
     phase             |-> "pages",
     gen               |-> NewGen(category, "page"),
     visited           |-> <<>>,
     failing           |-> failing,
     entry_seen        |-> seen,
     printed           |-> <<>>,
     absent            |-> {},
     late              |-> [listing |-> 0, extract |-> 0]]

\* history: a call made for the page members of f is counted if the cap is
\* reached
Late(f, kind) ==
    IF f.phase = "pages" /\ f.pages_count >= f.max_pages_per_cat
    THEN [f EXCEPT !.late[kind] = @ + 1]
    ELSE f

\* `continue` in the page loop: on to the next member
SkipMember(f, pageid) ==
    [f EXCEPT !.gen.buf = Tail(@), !.visited = Append(@, pageid)]

\* the page loop is left (break, or the generator is exhausted)
LeavePages(f) ==
    [f EXCEPT !.phase = "subcats", !.gen = NewGen(f.category, "subcat")]

\* the page loop left on a failed fetch
AfterFetchErrorBreak(f, pageid) == [LeavePages(f) EXCEPT !.printed = Append(@, pageid)]

\* the except clause of the page loop: log and continue
AfterFetchError(f, pageid) == [SkipMember(f, pageid) EXCEPT !.printed = Append(@, pageid)]

\* `if not info ...: continue` for a page get_page_extract returned None for
AfterAbsent(f, pageid) == [SkipMember(f, pageid) EXCEPT !.absent = @ \cup {pageid}]

\* the record carries the category the page was found in, not the chain
OutObjLeafOnly(f, info) ==
    IF info.title = None
    THEN [raised |-> "AttributeError"]
    ELSE [lang          |-> f.lang,
          category_path |-> <<f.category>>,
          title         |-> info.title,
          pageid        |-> info.pageid,
          text          |-> info.extract,
          url           |-> PageUrl(f.lang, info.title)]

\* out_obj of a page; info["title"].replace raises AttributeError when the
\* title is None
OutObj(f, info) ==
    IF info.title = None
    THEN [raised |-> "AttributeError"]
    ELSE [lang          |-> f.lang,
          category_path |-> f.category_path,
          title         |-> info.title,
          pageid        |-> info.pageid,
          text          |-> info.extract,
          url           |-> PageUrl(f.lang, info.title)]

(*********************************** main **********************************)

\* langs and categories main is run with
Langs == <<"en", "sr", "zh">>
Categories == << <<"Physics">>, <<"Mathematics">>, <<"Computer", "_", "science">> >>

NPairs == Len(Langs) * Len(Categories)

\* the i-th (lang, cat) of `for lang in langs: for cat in categories`
PairAt(i) ==
    [lang |-> Langs[((i - 1) \div Len(Categories)) + 1],
     cat  |-> Categories[((i - 1) % Len(Categories)) + 1]]

\* the run given up after an error
NextPairAbort(i) == NPairs + 1

\* after the except clause of main the loop goes on with the next pair
NextPairAfterError(i) == i + 1

\* the error caught by the calling invocation, which goes on with its next
\* subcategory
RaiseToCaller(stk) ==
    IF Len(stk) > 1
    THEN [pc |-> "crawl", stack |-> SubSeq(stk, 1, Len(stk) - 1)]
    ELSE [pc |-> "except", stack |-> stk]

\* an error raised by a member listing: no handler in crawl_category, it
\* leaves every invocation of the call tree and lands in main's except
\* clause (the frames are kept for inspection until main handles it)
Raise(stk) == [pc |-> "except", stack |-> stk]

Top == Last(stack)

SetTop(f) == [stack EXCEPT ![Len(stack)] = f]

\* the sets of members whose fetch may be made to fail in a new frame
FailChoices(lang, category) ==
    {F \in SUBSET Range(MemberIds(lang, category)) : Cardinality(F) <= MaxFaults - faults}

Init ==
    /\ pc = "call"
    /\ pair = 1
    /\ max_pages \in (0..MaxPagesArg) \cup {MainMaxPages}
    /\ depth0 \in (0..MaxDepth) \cup {MainDepth}
    /\ stack = <<>>
    /\ seen_pages = {}
    /\ out = <<>>
    /\ mlog = <<>>
    /\ faults = 0
    /\ unit = [op |-> "none"]

\* main, lines 159-165: the next pair's crawl_category call
MainCall ==
    /\ pc = "call"
    /\ pair <= NPairs
    /\ LET lang == PairAt(pair).lang
           cat  == PairAt(pair).cat
       IN  \E failing \in FailChoices(lang, cat) :
              /\ stack' = <<Frame(cat, lang, max_pages, depth0, <<cat>>, failing,
                                   NewSeenPages(seen_pages))>>
              /\ faults' = faults + Cardinality(failing)
              /\ mlog' = Append(mlog, [ev |-> "call", lang |-> lang, cat |-> cat])
    /\ seen_pages' = NewSeenPages(seen_pages)
    /\ pc' = "crawl"
    /\ UNCHANGED <<pair, max_pages, depth0, out, unit>>

\* the generator of the running loop is resumed with no member left to yield
\* and a request to make; a fetch-exhausted error leaves crawl_category
Fetch ==
    /\ pc = "crawl"
    /\ Top.gen.buf = <<>>
    /\ Top.gen.more
    /\ Top.phase = "subcats" => MayDescend(Top.depth)
    /\ \E session \in CrawlSessions :
          LET r == GenRequest(Top.gen, session, mw_api_endpoint(Top.lang))
          IN  IF r.raised
              THEN /\ faults < MaxFaults
                   /\ faults' = faults + 1
                   /\ pc' = Raise(SetTop(Late(Top, "listing"))).pc
                   /\ stack' = Raise(SetTop(Late(Top, "listing"))).stack
              ELSE /\ stack' = SetTop([Late(Top, "listing") EXCEPT !.gen = r.gen])
                   /\ UNCHANGED <<pc, faults>>
    /\ UNCHANGED <<pair, max_pages, depth0, seen_pages, out, mlog, unit>>

\* lines 129-137 of an iteration that has counted its page: the record is
\* written, or building it raised and the error leaves crawl_category
WriteRecord(counted, out_obj, pageid) ==
    IF "raised" \in DOMAIN out_obj
    THEN /\ pc' = Raise(SetTop(counted)).pc
         /\ stack' = Raise(SetTop(counted)).stack
         /\ out' = out
    ELSE /\ out' = Append(out, out_obj)
         /\ stack' = SetTop(SkipMember(counted, pageid))
         /\ UNCHANGED pc

\* one iteration of the page loop, lines 112-139
CrawlPage ==
    /\ pc = "crawl"
    /\ Top.phase = "pages"
    /\ Top.gen.buf # <<>>
    /\ LET f      == Top
           member == Head(f.gen.buf)
           pageid == member.pageid
       IN  IF CapReached(f.pages_count, f.max_pages_per_cat)
           THEN /\ stack' = SetTop(LeavePages(f))
                /\ UNCHANGED <<pc, seen_pages, out>>
           ELSE IF AlreadySeen(pageid, seen_pages)
           THEN /\ stack' = SetTop(SkipMember(f, pageid))
                /\ UNCHANGED <<pc, seen_pages, out>>
           ELSE \E session \in CrawlSessions :
                   LET r == get_page_extract(session, mw_api_endpoint(f.lang),
                                             Some(pageid), None)
                   IN  /\ (r.error # "") <=> (pageid \in f.failing)
                       /\ IF r.error # ""
                          THEN /\ stack' = SetTop(AfterFetchError(Late(f, "extract"), pageid))
                               /\ UNCHANGED <<pc, seen_pages, out>>
                          ELSE IF NoText(r.value)
                          THEN /\ stack' = SetTop(IF r.value.isNone
                                                  THEN AfterAbsent(Late(f, "extract"), pageid)
                                                  ELSE SkipMember(Late(f, "extract"), pageid))
                               /\ UNCHANGED <<pc, seen_pages, out>>
                          ELSE /\ seen_pages' = SeenAfterWrite(seen_pages, pageid)
                               /\ WriteRecord([Late(f, "extract") EXCEPT !.pages_count = @ + 1],
                                              OutObj(f, r.value.v), pageid)
    /\ UNCHANGED <<pair, max_pages, depth0, mlog, faults, unit>>

\* the page generator is exhausted: the page loop ends
PagesDone ==
    /\ pc = "crawl"
    /\ Top.phase = "pages"
    /\ Top.gen.buf = <<>>
    /\ ~Top.gen.more
    /\ stack' = SetTop(LeavePages(Top))
    /\ UNCHANGED <<pc, pair, max_pages, depth0, seen_pages, out, mlog, faults, unit>>

\* one iteration of the subcategory loop, lines 143-153
CrawlSubcat ==
    /\ pc = "crawl"
    /\ Top.phase = "subcats"
    /\ MayDescend(Top.depth)
    /\ Top.gen.buf # <<>>
    /\ LET f             == Top
           member        == Head(f.gen.buf)
           subcat_title  == StripCategory(member.title)
           g             == [f EXCEPT !.gen.buf = Tail(@)]
       IN  IF InPath(subcat_title, f.category_path)
           THEN /\ stack' = SetTop(g)
                /\ UNCHANGED faults
           ELSE \E failing \in FailChoices(f.lang, subcat_title) :
                   /\ stack' = Append(SetTop(g),
                                      Frame(subcat_title, f.lang, f.max_pages_per_cat,
                                            ChildDepth(f.depth),
                                            f.category_path \o <<subcat_title>>,
                                            failing, seen_pages))
                   /\ faults' = faults + Cardinality(failing)
    /\ UNCHANGED <<pc, pair, max_pages, depth0, seen_pages, out, mlog, unit>>

\* crawl_category returns: no descent allowed, or the subcategories are used up
Return ==
    /\ pc = "crawl"
    /\ Top.phase = "subcats"
    /\ \/ ~MayDescend(Top.depth)
       \/ Top.gen.buf = <<>> /\ ~Top.gen.more
    /\ stack' = SubSeq(stack, 1, Len(stack) - 1)
    /\ IF Len(stack) = 1
       THEN pc' = "call" /\ pair' = pair + 1
       ELSE UNCHANGED <<pc, pair>>
    /\ UNCHANGED <<max_pages, depth0, seen_pages, out, mlog, faults, unit>>

\* main, lines 166-168: the error is printed, main sleeps and goes on
MainExcept ==
    /\ pc = "except"
    /\ stack' = <<>>
    /\ mlog' = mlog \o <<[ev |-> "error", lang |-> PairAt(pair).lang, cat |-> PairAt(pair).cat],
                         [ev |-> "sleep", seconds |-> RETRY_WAIT]>>
    /\ pair' = NextPairAfterError(pair)
    /\ pc' = "call"
    /\ UNCHANGED <<max_pages, depth0, seen_pages, out, faults, unit>>

\* the loops of main are over and the output file is closed
MainDone ==
    /\ pc = "call"
    /\ pair > NPairs
    /\ pc' = "done"
    /\ UNCHANGED <<pair, max_pages, depth0, stack, seen_pages, out, mlog, faults, unit>>

Next ==
    \/ MainCall
    \/ Fetch
    \/ CrawlPage
    \/ PagesDone
    \/ CrawlSubcat
    \/ Return
    \/ MainExcept
    \/ MainDone

Spec == Init /\ [][Next]_vars

(************** api_get and get_page_extract called directly ***************)

\* page ids and titles the direct calls are made with
UnitPageIds == {1, 5, 6, 8}
UnitTitles == {<<"P", "1">>, <<"P", "_", "7">>, <<"P", "6">>, <<"N", "o">>}

UnitRequests ==
    {NewGen(<<"Physics">>, "page").params,
     NewGen(<<"Computer", "_", "science">>, "subcat").params,
     ExtractParams(Some(1), None).v}

UnitInit ==
    /\ pc = "unit"
    /\ pair = 1
    /\ max_pages = 0
    /\ depth0 = 0
    /\ stack = <<>>
    /\ seen_pages = {}
    /\ out = <<>>
    /\ mlog = <<>>
    /\ faults = 0
    /\ unit = [op |-> "none"]

CallApiGet ==
    /\ unit.op = "none"
    /\ \E session \in Sessions, lang \in Range(Langs), params \in UnitRequests :
          unit' = [op      |-> "api_get",
                   session |-> session,
                   url     |-> mw_api_endpoint(lang),
                   params  |-> params,
                   result  |-> api_get(session, mw_api_endpoint(lang), params)]
    /\ UNCHANGED <<pc, pair, max_pages, depth0, stack, seen_pages, out, mlog, faults>>

CallGetPageExtract ==
    /\ unit.op = "none"
    /\ \E session \in Sessions, lang \in Range(Langs),
          pageid \in {None} \cup {Some(i) : i \in UnitPageIds},
          title \in {None} \cup {Some(t) : t \in UnitTitles} :
          unit' = [op      |-> "get_page_extract",
                   session |-> session,
                   url     |-> mw_api_endpoint(lang),
                   pageid  |-> pageid,
                   title   |-> title,
                   result  |-> get_page_extract(session, mw_api_endpoint(lang), pageid, title)]
    /\ UNCHANGED <<pc, pair, max_pages, depth0, stack, seen_pages, out, mlog, faults>>

UnitNext ==
    \/ CallApiGet
    \/ CallGetPageExtract

UnitSpec == UnitInit /\ [][UnitNext]_vars

(********************************* claims **********************************)

Frames == Range(stack)

Records == Range(out)

NoDup(s) == \A i, j \in 1..Len(s) : i # j => s[i] # s[j]

\* what the server holds for a page: a real (not missing) page whose extract
\* has a character that is not whitespace
HasText(lang, id) ==
    /\ id \in DOMAIN Wiki(lang).pages
    /\ Wiki(lang).pages[id][1] >= 0
    /\ "extract" \in DOMAIN Wiki(lang).pages[id][2]
    /\ \E k \in DOMAIN Wiki(lang).pages[id][2].extract :
          Wiki(lang).pages[id][2].extract[k] \notin Whitespace

\* the eligible pages of an invocation: listed by the server, not seen before,
\* the extract fetch succeeds, the extract has text
Eligible(f) ==
    {id \in Range(MemberIds(f.lang, f.category)) :
        id \notin f.entry_seen /\ id \notin f.failing /\ HasText(f.lang, id)}

\* the positions in out of the records an invocation wrote
Emitted(f) ==
    {i \in 1..Len(out) : out[i].lang = f.lang /\ out[i].category_path = f.category_path}

\* C1: no page id is written twice under one (language, top-level category)
C1_NoDuplicatePageIds ==
    \A i, j \in 1..Len(out) :
        (/\ i < j
         /\ out[i].lang = out[j].lang
         /\ out[i].category_path[1] = out[j].category_path[1])
        => out[i].pageid # out[j].pageid

\* a page written under one path was met again under another path and skipped
C1_Witness ==
    \E f \in Frames : \E id \in Range(f.visited) : \E r \in Records :
        /\ id \in f.entry_seen
        /\ r.pageid = id
        /\ r.lang = f.lang
        /\ r.category_path[1] = f.category_path[1]
        /\ r.category_path # f.category_path

\* C2 as stated: an invocation that is over with its pages (its page loop
\* ended, or it was left by an error) and has more eligible pages than the
\* cap has written exactly max_pages_per_cat records
C2_Original ==
    \A f \in Frames :
        ((f.phase = "subcats" \/ pc = "except")
         /\ Cardinality(Eligible(f)) > f.max_pages_per_cat)
        => Cardinality(Emitted(f)) = f.max_pages_per_cat

\* C2 amended: with more eligible pages than the cap, an invocation whose page
\* loop ended has written exactly max_pages_per_cat records, and no
\* invocation ever has written more than that
C2_CapExact ==
    \A f \in Frames :
        /\ (f.phase = "subcats" /\ Cardinality(Eligible(f)) > f.max_pages_per_cat)
           => Cardinality(Emitted(f)) = f.max_pages_per_cat
        /\ Cardinality(Eligible(f)) > f.max_pages_per_cat
           => Cardinality(Emitted(f)) <= f.max_pages_per_cat

\* the page loop of a category with more eligible pages than a positive cap ended
C2_Witness ==
    \E f \in Frames :
        /\ f.phase = "subcats"
        /\ f.max_pages_per_cat > 0
        /\ Cardinality(Eligible(f)) > f.max_pages_per_cat
        /\ Cardinality(Emitted(f)) = f.max_pages_per_cat

\* C3: no category_path of an invocation or of a record holds a name twice,
\* and each invocation's path is its caller's path plus its own category
C3_NoCycleInPath ==
    /\ \A r \in Records : NoDup(r.category_path)
    /\ \A i \in 1..Len(stack) :
          /\ NoDup(stack[i].category_path)
          /\ Last(stack[i].category_path) = stack[i].category
          /\ i > 1 => stack[i].category_path
                        = stack[i - 1].category_path \o <<stack[i].category>>

\* an invocation two levels down has just skipped a subcategory that is the
\* top-level category (an indirect cycle)
C3_Witness ==
    /\ stack # <<>>
    /\ Len(Top.category_path) >= 2
    /\ Top.phase = "subcats"
    /\ LET bs == Batches(Top.lang, Top.category, "subcat")
       IN  /\ bs # <<>>
           /\ bs[1] # <<>>
           /\ StripCategory(Head(bs[1]).title) = Top.category_path[1]
           /\ Top.gen.buf = Tail(bs[1])
           /\ Top.gen.params = NewGen(Top.category, "subcat").params

\* the attempts of a session, among the first MAX_RETRIES, answered with 200
Answered(session) ==
    {i \in 1..MAX_RETRIES : ~session[i].exc /\ session[i].status_code = 200}

Min(S) == CHOOSE x \in S : \A y \in S : x <= y

\* C4: if one of the first MAX_RETRIES attempts is answered with 200, api_get
\* returns the body of the first such answer, raises nothing, and has issued
\* exactly the requests up to that answer
C4_SucceedsAfterRetries ==
    (unit.op = "api_get" /\ Answered(unit.session) # {})
    => LET first == Min(Answered(unit.session))
       IN  /\ ~unit.result.raised
           /\ unit.result.requests = first
           /\ unit.result.waited = (first - 1) * RETRY_WAIT
           /\ unit.result.value = SessionGet(unit.session, unit.url, unit.params, first).json

\* 503, 503, 200: the call returned on its third request
C4_Witness ==
    /\ unit.op = "api_get"
    /\ \A i \in 1..2 : ~unit.session[i].exc /\ unit.session[i].status_code = 503
    /\ ~unit.session[3].exc /\ unit.session[3].status_code = 200
    /\ ~unit.result.raised
    /\ unit.result.requests = 3
    /\ "query" \in DOMAIN unit.result.value

\* C5: api_get raises exactly when the first MAX_RETRIES attempts all fail,
\* it has then issued exactly MAX_RETRIES requests, and no call issues more
C5_RaisesAfterMaxRetries ==
    unit.op = "api_get"
    => /\ unit.result.requests <= MAX_RETRIES
       /\ unit.result.raised <=> (Answered(unit.session) = {})
       /\ unit.result.raised => unit.result.requests = MAX_RETRIES

\* a transport failure, then 503 twice, a 200 ready as fourth answer: raised
C5_Witness ==
    /\ unit.op = "api_get"
    /\ unit.session[1].exc
    /\ \A i \in 2..3 : ~unit.session[i].exc /\ unit.session[i].status_code = 503
    /\ unit.session[4].status_code = 200
    /\ unit.result.raised
    /\ unit.result.requests = MAX_RETRIES

\* C8 as stated: a call with neither or with both of pageid and title fails
\* with ValueError before any request
C8_Original ==
    (unit.op = "get_page_extract" /\ (unit.pageid.isNone <=> unit.title.isNone))
    => /\ unit.result.error = "ValueError"
       /\ unit.result.requests = 0

\* C8 amended: a call with neither fails with ValueError before any request;
\* a call with at least one does not, and a call with both asks for the
\* page id and leaves the title out of the query
C8_NeitherFails ==
    unit.op = "get_page_extract"
    => /\ (unit.pageid.isNone /\ unit.title.isNone)
          => (unit.result.error = "ValueError" /\ unit.result.requests = 0)
       /\ ~(unit.pageid.isNone /\ unit.title.isNone)
          => (unit.result.error # "ValueError" /\ unit.result.requests >= 1)
       /\ (~unit.pageid.isNone /\ ~unit.title.isNone)
          => /\ unit.result.params.pageids = unit.pageid.v
             /\ "titles" \notin DOMAIN unit.result.params

\* a call with both returned the page of the page id, after one request,
\* although the title names another page
C8_Witness ==
    /\ unit.op = "get_page_extract"
    /\ unit.pageid = Some(1)
    /\ unit.title = Some(<<"P", "6">>)
    /\ unit.result.error = ""
    /\ unit.result.requests = 1
    /\ unit.result.value.v.pageid = 1

\* C6: a failed extract fetch costs that page alone: of the members the page
\* loop has dealt with, exactly the eligible ones are written under the
\* invocation's path (a failed one is not), and the page loop ends only when
\* the members are used up or the cap is reached
C6_FetchFailureIsolated ==
    \A f \in Frames :
        /\ \A id \in Range(f.visited) :
              (id \in Eligible(f)) <=> (\E i \in Emitted(f) : out[i].pageid = id)
        /\ f.phase = "subcats"
           => \/ Range(f.visited) = Range(MemberIds(f.lang, f.category))
              \/ f.pages_count >= f.max_pages_per_cat

\* a page's fetch failed, and a later member of the same category was written
C6_Witness ==
    \E f \in Frames : \E i, j \in 1..Len(f.visited) :
        /\ i < j
        /\ f.visited[i] \in f.failing
        /\ f.visited[i] \notin f.entry_seen
        /\ \E k \in Emitted(f) : out[k].pageid = f.visited[j]
        /\ \A k \in Emitted(f) : out[k].pageid # f.visited[i]

\* the calls of crawl_category main has made
Calls == SelectSeq(mlog, LAMBDA e : e.ev = "call")

Index(s, x) == CHOOSE i \in 1..Len(s) : s[i] = x

\* C7: whatever fails, main's calls are in loop order (languages outer,
\* categories inner), no pair twice; an error is logged right after the call
\* it ended and is followed by the sleep; a finished run has called every
\* pair, and main always has its next step after an error and between pairs
C7_RunNeverAborts ==
    /\ \A i, j \in 1..Len(Calls) :
          i < j => \/ Index(Langs, Calls[i].lang) < Index(Langs, Calls[j].lang)
                   \/ /\ Calls[i].lang = Calls[j].lang
                      /\ Index(Categories, Calls[i].cat) < Index(Categories, Calls[j].cat)
    /\ \A k \in 1..Len(mlog) :
          mlog[k].ev = "error"
          => /\ k > 1
             /\ mlog[k - 1] = [ev |-> "call", lang |-> mlog[k].lang, cat |-> mlog[k].cat]
             /\ k < Len(mlog)
             /\ mlog[k + 1] = [ev |-> "sleep", seconds |-> RETRY_WAIT]
    /\ pc = "except" => Len(Calls) = pair
    /\ pc = "done" => (Len(Calls) = Len(Langs) * Len(Categories) /\ stack = <<>>)
    /\ pc = "except" => ENABLED MainExcept
    /\ pc = "call" => ENABLED (MainCall \/ MainDone)

\* the run is over, and a pair that was not the last one had failed
C7_Witness ==
    /\ pc = "done"
    /\ \E k \in 1..Len(mlog) :
          /\ mlog[k].ev = "error"
          /\ \E m \in (k + 1)..Len(mlog) : mlog[m].ev = "call"

\* C9: an invocation with depth 0 calls no one (it is the last frame), its
\* page loop writes its eligible pages up to the cap, and a run with depth 0
\* writes only records whose path is the top-level category alone
C9_DepthZeroNoDescent ==
    /\ \A i \in 1..Len(stack) :
          stack[i].depth = 0
          => /\ i = Len(stack)
             /\ stack[i].phase = "subcats"
                => Cardinality(Emitted(stack[i]))
                     = Min({Cardinality(Eligible(stack[i])), stack[i].max_pages_per_cat})
    /\ depth0 = 0
       => \A r \in Records :
             r.category_path = <<r.category_path[1]>> /\ r.category_path[1] \in Range(Categories)

\* a category that has subcategories was crawled with depth 0 below the top
\* level: it wrote a record and is about to return
C9_Witness ==
    /\ Len(stack) >= 2
    /\ Top.depth = 0
    /\ Top.phase = "subcats"
    /\ Top.pages_count > 0
    /\ Batches(Top.lang, Top.category, "subcat") # <<>>
    /\ \E i \in Emitted(Top) : i = Len(out)

\* C10: every record written has an extract with a character that is not
\* whitespace; pages_count counts the records written, and only pages with
\* such an extract are in seen_pages
C10_RecordsHaveText ==
    /\ \A r \in Records : \E k \in DOMAIN r.text : r.text[k] \notin Whitespace
    /\ \A f \in Frames :
          /\ f.pages_count = Cardinality(Emitted(f))
          /\ \A id \in seen_pages : HasText(f.lang, id)

\* the page loop fetched a page whose extract is whitespace only and a page
\* the server reports missing, wrote neither and did not mark them seen
C10_Witness ==
    \E f \in Frames : \E a, b \in Range(f.visited) :
        /\ a \notin f.failing /\ b \notin f.failing
        /\ Wiki(f.lang).pages[a][1] >= 0
        /\ Get(Wiki(f.lang).pages[a][2], "extract", <<>>) # <<>>
        /\ ~HasText(f.lang, a)
        /\ Wiki(f.lang).pages[b][1] < 0
        /\ a \notin seen_pages /\ b \notin seen_pages
        /\ \A r \in Records : r.pageid # a /\ r.pageid # b
        /\ f.pages_count = 1

\* the first n batches of a generator's category, in one sequence
FirstBatches(f, n) ==
    LET bs == Batches(f.lang, f.category, f.gen.params.cmtype)
    IN  Flatten(SubSeq(bs, 1, IF n < Len(bs) THEN n ELSE Len(bs)))

\* C11: the generator of every invocation has asked once per batch received:
\* the first query is the plain one, each further query is the same query with
\* the token of the answer before; the members received are the batches in
\* order and the members still to be yielded are a tail of them; another
\* request follows exactly when the last answer carried a token, so an
\* exhausted generator has yielded every batch, each member once
C11_FollowsContinuation ==
    \A f \in Frames :
        LET g    == f.gen
            base == NewGen(f.category, g.params.cmtype).params
            url  == mw_api_endpoint(f.lang)
            bs   == Batches(f.lang, f.category, g.params.cmtype)
            n    == Len(g.sent)
        IN  /\ n >= 1 => g.sent[1] = base
            /\ \A i \in 2..n :
                  /\ "continue" \in DOMAIN Remote(url, g.sent[i - 1])
                  /\ g.sent[i] = Remote(url, g.sent[i - 1]).continue @@ base
            /\ g.got = FirstBatches(f, n)
            /\ Len(g.buf) <= Len(g.got)
            /\ g.buf = SubSeq(g.got, Len(g.got) - Len(g.buf) + 1, Len(g.got))
            /\ n >= 1 => (g.more <=> "continue" \in DOMAIN Remote(url, g.sent[n]))
            /\ n = 0 => g.more
            /\ ~g.more => (g.got = Flatten(bs) /\ NoDup(g.got) /\ (n = Len(bs) \/ bs = <<>>))

\* the subcategories of a category that come in two batches were all yielded
\* after two requests, the second one carrying the token
C11_Witness ==
    \E f \in Frames :
        /\ f.phase = "subcats"
        /\ Len(f.gen.sent) = 2
        /\ "cmcontinue" \in DOMAIN f.gen.sent[2]
        /\ ~f.gen.more
        /\ f.gen.buf = <<>>
        /\ Len(f.gen.got) = 3

\* the titles, "Category:" removed, of the subcategories the server lists
SubcatNames(lang, category) ==
    {StripCategory(m.title) : m \in Range(Flatten(Batches(lang, category, "subcat")))}

\* path leads from a top-level category down the subcategory relation
IsChain(lang, path) ==
    /\ path # <<>>
    /\ path[1] \in Range(Categories)
    /\ \A k \in 1..(Len(path) - 1) : path[k + 1] \in SubcatNames(lang, path[k])

\* the records of one (language, top-level category), in the order written
RecordsOf(lang, cat) ==
    LET sel == SelectSeq(out, LAMBDA r : r.lang = lang /\ r.category_path[1] = cat)
    IN  [i \in 1..Len(sel) |-> [pageid |-> sel[i].pageid, category_path |-> sel[i].category_path]]

\* C12: the category_path of every record is the chain from the top-level
\* category to the category the page is a member of, each element a
\* subcategory of the one before; the invocations on the stack carry the same
\* chain; a category with a page with text, a page with an empty extract and
\* one subcategory holding a new page with text, crawled at depth 1 without
\* failures, gives exactly two records: the first page under [top] and the
\* subcategory's page under [top, subcategory]
C12_PathIsChain ==
    /\ \A r \in Records :
          /\ IsChain(r.lang, r.category_path)
          /\ r.pageid \in Range(MemberIds(r.lang, Last(r.category_path)))
    /\ \A i \in 1..Len(stack) :
          /\ IsChain(stack[i].lang, stack[i].category_path)
          /\ Last(stack[i].category_path) = stack[i].category
          /\ stack[i].category_path[1] = PairAt(pair).cat
          /\ i > 1 => stack[i].category_path =
                         Append(stack[i - 1].category_path, stack[i].category)
          /\ \A k \in Emitted(stack[i]) : out[k].category_path = stack[i].category_path
          /\ Cardinality(Emitted(stack[i])) = stack[i].pages_count
    /\ (pair > 7 /\ faults = 0 /\ depth0 = 1 /\ max_pages >= 1)
       => RecordsOf("zh", <<"Physics">>) =
             << [pageid |-> 1, category_path |-> << <<"Physics">> >>],
                [pageid |-> 3, category_path |->
                                  << <<"Physics">>, <<"Computer", " ", "science">> >>] >>

\* the crawl of that category at depth 1 is over and both records are written
C12_Witness ==
    /\ pair > 7
    /\ faults = 0
    /\ depth0 = 1
    /\ max_pages >= 1
    /\ Len(RecordsOf("zh", <<"Physics">>)) = 2
    /\ \E r \in Records : Len(r.category_path) = 2 /\ r.lang = "zh" /\ r.pageid = 3

\* the first page listed for a category that has text, in a one-element set
FirstWithText(lang, cat) ==
    LET ms == MemberIds(lang, cat)
    IN  {ms[k] : k \in {k \in 1..Len(ms) :
                          /\ HasText(lang, ms[k])
                          /\ \A j \in 1..(k - 1) : ~HasText(lang, ms[j])}}

\* the positions of the records of a page under one (language, top category)
WrittenFor(lang, cat, id) ==
    {k \in 1..Len(out) :
        out[k].lang = lang /\ out[k].category_path[1] = cat /\ out[k].pageid = id}

\* C13: every (language, top-level category) starts with an empty seen set:
\* the outermost invocation saw nothing on entry, whatever earlier pairs
\* wrote, so each member with text it got through is written under this pair
\* too; after a run without failures the first page with text of every
\* top-level category has one record per pair it belongs to
C13_FreshSeenPerPair ==
    /\ stack # <<>> =>
          /\ stack[1].entry_seen = {}
          /\ \A id \in Range(stack[1].visited) :
                (id \notin stack[1].failing /\ HasText(stack[1].lang, id))
                => Cardinality(WrittenFor(stack[1].lang, stack[1].category, id)) = 1
    /\ (pc = "done" /\ faults = 0 /\ max_pages >= 1) =>
          \A i \in 1..NPairs : \A id \in FirstWithText(PairAt(i).lang, PairAt(i).cat) :
              Cardinality(WrittenFor(PairAt(i).lang, PairAt(i).cat, id)) = 1

\* a page with text listed in two top-level categories of one wiki has two
\* records at the end of the run, one per pair, and so has a page id used in
\* both wikis
C13_Witness ==
    /\ pc = "done"
    /\ \E i, j \in 1..Len(out) :
          /\ i < j
          /\ out[i].lang = out[j].lang
          /\ out[i].pageid = out[j].pageid
          /\ out[i].category_path = << <<"Physics">> >>
          /\ out[j].category_path = << <<"Computer", "_", "science">> >>
    /\ \E i, j \in 1..Len(out) :
          /\ out[i].lang # out[j].lang
          /\ out[i].pageid = out[j].pageid

\* the server reports the page as missing, under a negative key
ReportedMissing(lang, id) ==
    id \in DOMAIN Wiki(lang).pages /\ Wiki(lang).pages[id][1] < 0

\* C14: for a member the server reports as missing, get_page_extract returns
\* None and raises nothing: the member is among those it returned None for,
\* no failure is printed for it, it is not written and not remembered as seen,
\* and the page loop goes on with the members after it; failures are printed
\* only for fetches that exhausted their retries
C14_MissingPageSkipped ==
    \A f \in Frames :
        /\ Range(f.printed) \subseteq f.failing
        /\ \A k \in 1..Len(f.visited) :
              LET id == f.visited[k]
              IN  (ReportedMissing(f.lang, id) /\ id \notin f.failing) =>
                     /\ id \in f.absent
                     /\ id \notin Range(f.printed)
                     /\ id \notin seen_pages
                     /\ \A r \in Records : r.lang = f.lang => r.pageid # id
                     /\ f.visited = SubSeq(MemberIds(f.lang, f.category), 1, Len(f.visited))
                     /\ (f.phase = "subcats" /\ k < Len(MemberIds(f.lang, f.category)))
                        => \/ Len(f.visited) > k
                           \/ f.pages_count >= f.max_pages_per_cat

\* a missing page was skipped without a failure printed and the member
\* listed after it was fetched in the same invocation
C14_Witness ==
    \E f \in Frames : \E k \in 1..Len(f.visited) :
        /\ ReportedMissing(f.lang, f.visited[k])
        /\ f.visited[k] \in f.absent
        /\ f.printed = <<>>
        /\ Len(f.visited) > k
        /\ f.pages_count < f.max_pages_per_cat

\* C15 as stated: once a category is at its cap (of one record or more), no
\* call is made for its page members, neither an extract fetch nor a member
\* listing
C15_Original ==
    \A f \in Frames :
        f.max_pages_per_cat >= 1 => (f.late.extract = 0 /\ f.late.listing = 0)

\* C15: once a category is at its cap no extract is fetched for it and no
\* record is written; the cap is tested when the generator yields the next
\* member, so a member listing is still requested when the batch in hand is
\* used up and its answer carried a token, and the loop is left at the first
\* member of the batch received
C15_NoFetchAfterCap ==
    \A f \in Frames :
        /\ f.late.extract = 0
        /\ f.pages_count <= f.max_pages_per_cat
        /\ f.late.listing <= 1
        /\ (f.phase = "pages" /\ f.late.listing = 1 /\ pc = "crawl") =>
              /\ LET batches == Batches(f.lang, f.category, "page")
                 IN  f.gen.buf = IF Len(f.gen.sent) \in DOMAIN batches
                                 THEN batches[Len(f.gen.sent)] ELSE <<>>
              /\ Len(f.visited) = Len(f.gen.got) - Len(f.gen.buf)

\* a category with a cap of one record or more was at its cap at the end of
\* a batch, asked for the next batch and then left the page loop
C15_Witness ==
    \E f \in Frames :
        /\ f.max_pages_per_cat >= 1
        /\ f.pages_count = f.max_pages_per_cat
        /\ f.late.listing = 1
        /\ f.late.extract = 0
        /\ f.phase = "subcats"
        /\ Len(f.visited) < Len(MemberIds(f.lang, f.category))

\* a step in which a member listing exhausted its retries
EnumFailStep ==
    /\ pc = "crawl"
    /\ faults' = faults + 1
    /\ Len(stack') <= Len(stack)

\* C16: a member listing that exhausts its retries, at whatever recursion
\* level, takes control to main's except clause with the output as it was;
\* main then drops the whole call tree of the pair, keeps the records written,
\* logs the error and the sleep and calls crawl_category for the next pair
C16_EnumerationFailurePropagates ==
    [][/\ EnumFailStep =>
             /\ pc' = "except"
             /\ Len(stack') = Len(stack)
             /\ out' = out
             /\ pair' = pair
       /\ pc = "except" =>
             /\ pc' = "call"
             /\ stack' = <<>>
             /\ out' = out
             /\ pair' = pair + 1
             /\ mlog' = mlog \o <<[ev |-> "error", lang |-> PairAt(pair).lang,
                                   cat |-> PairAt(pair).cat],
                                  [ev |-> "sleep", seconds |-> RETRY_WAIT]>>
       /\ (pc = "call" /\ pair <= NPairs) =>
             /\ pc' = "crawl"
             /\ Len(stack') = 1
             /\ stack'[1].category = PairAt(pair).cat
             /\ stack'[1].lang = PairAt(pair).lang
             /\ out' = out
      ]_vars

\* a listing failed two levels below main, after records of the pair were
\* written and with pairs still to crawl
C16_Witness ==
    /\ pc = "except"
    /\ Len(stack) >= 2
    /\ pair < NPairs
    /\ \E r \in Records :
          r.lang = PairAt(pair).lang /\ r.category_path[1] = PairAt(pair).cat

\* p is the beginning of q
IsPrefix(p, q) == Len(p) <= Len(q) /\ SubSeq(q, 1, Len(p)) = p

\* records i and j were written for the same (language, top-level category)
SamePair(i, j) ==
    out[i].lang = out[j].lang /\ out[i].category_path[1] = out[j].category_path[1]

\* C17: an invocation that has called another one, or lists its
\* subcategories, is through with its page loop (every member met, or the
\* cap reached); in the output no record of a category comes after a record
\* of one of its descendants, and the records below one subcategory are not
\* interrupted by a record from outside its subtree
C17_PagesBeforeDescent ==
    /\ \A i \in 1..Len(stack) :
          (i < Len(stack) \/ stack[i].gen.params.cmtype = "subcat") =>
             /\ stack[i].phase = "subcats"
             /\ \/ Len(stack[i].visited) = Len(MemberIds(stack[i].lang, stack[i].category))
                \/ stack[i].pages_count >= stack[i].max_pages_per_cat
    /\ \A i, j \in 1..Len(out) :
          (i < j /\ SamePair(i, j)) =>
             ~(/\ IsPrefix(out[j].category_path, out[i].category_path)
               /\ out[j].category_path # out[i].category_path)
    /\ \A i, j, k \in 1..Len(out) :
          (i < j /\ j < k /\ SamePair(i, k)) =>
             \A n \in 2..Len(out[i].category_path) :
                 LET q == SubSeq(out[i].category_path, 1, n)
                 IN  IsPrefix(q, out[k].category_path) =>
                        (SamePair(i, j) /\ IsPrefix(q, out[j].category_path))

\* a category's record is followed by the records of its first subcategory
\* and then of the next one; and a record was written three levels down
\* after records of the two levels above
C17_Witness ==
    /\ \E i, j, k \in 1..Len(out) :
          /\ i < j /\ j < k
          /\ SamePair(i, k)
          /\ Len(out[i].category_path) = 1
          /\ Len(out[j].category_path) = 2
          /\ Len(out[k].category_path) = 2
          /\ out[j].category_path # out[k].category_path
    /\ \E i, j, k \in 1..Len(out) :
          /\ i < j /\ j < k
          /\ IsPrefix(out[i].category_path, out[j].category_path)
          /\ IsPrefix(out[j].category_path, out[k].category_path)
          /\ Len(out[k].category_path) = 3

\* the page ids of the records written for the pair being crawled
WrittenIds ==
    {out[k].pageid : k \in {k \in 1..Len(out) :
                               /\ out[k].lang = PairAt(pair).lang
                               /\ out[k].category_path[1] = PairAt(pair).cat}}

\* C18: while a pair is crawled, seen_pages is the set of the page ids of the
\* records written for the pair; so a member met and skipped (seen before,
\* fetch failed, no page, no text) is in seen_pages only if another
\* invocation wrote it
C18_SeenIsWritten ==
    pc \in {"crawl", "except"} =>
        /\ seen_pages = WrittenIds
        /\ \A f \in Frames : \A id \in Range(f.visited) :
              (id \in Range(f.printed) \/ id \in f.absent \/ ~HasText(f.lang, id))
              => (id \in seen_pages <=>
                     \E r \in Records : /\ r.lang = f.lang
                                        /\ r.category_path[1] = f.category_path[1]
                                        /\ r.category_path # f.category_path
                                        /\ r.pageid = id)

\* a page whose fetch failed in a category was written when it was met
\* again in a subcategory of it
C18_Witness ==
    \E f \in Frames : \E id \in Range(f.printed) : \E r \in Records :
        /\ r.pageid = id
        /\ r.lang = f.lang
        /\ IsPrefix(f.category_path, r.category_path)
        /\ r.category_path # f.category_path
        /\ id \in seen_pages

\* C19: in every invocation the length of category_path plus the depth left
\* is the depth main was called with plus one; no invocation has a negative
\* depth and no record has a category_path of more than that many names
C19_DepthBound ==
    /\ \A f \in Frames :
          /\ Len(f.category_path) + f.depth = depth0 + 1
          /\ f.depth >= 0
    /\ \A r \in Records : Len(r.category_path) <= depth0 + 1

\* an invocation at the deepest level, depth 0 left, has written a record
\* whose category_path has depth0 + 1 names, the crawl started at depth 2
C19_Witness ==
    /\ depth0 = 2
    /\ \E f \in Frames :
          /\ f.depth = 0
          /\ Len(f.category_path) = depth0 + 1
          /\ \E r \in Records : r.category_path = f.category_path /\ r.lang = f.lang

\* the requests a listing takes when none fails: one per batch, one for none
TotalRequests(lang, category, cmtype) ==
    IF Batches(lang, category, cmtype) = <<>> THEN 1
    ELSE Len(Batches(lang, category, cmtype))

\* what is left of the loop an invocation is in: requests to make and members
\* to take
LoopLeft(f) ==
    LET cmtype == f.gen.params.cmtype
    IN  (TotalRequests(f.lang, f.category, cmtype) - Len(f.gen.sent))
        + (Len(Flatten(Batches(f.lang, f.category, cmtype)))
           - (Len(f.gen.got) - Len(f.gen.buf)))

\* the steps an invocation has left to take itself, at most
StepsLeft(f) ==
    IF f.phase = "subcats"
    THEN 1 + LoopLeft(f)
    ELSE 2 + LoopLeft(f) + TotalRequests(f.lang, f.category, "subcat")
           + Len(Flatten(Batches(f.lang, f.category, "subcat")))

\* what main has left: three steps for each pair to come, fewer in a pair
MainLeft ==
    3 * (NPairs + 1 - pair)
    + (IF pc = "call" THEN 2 ELSE IF pc = "crawl" THEN 1 ELSE 0)

\* the rank of a state, a tuple indexed from 0: what main has left, then
\* what each invocation on the stack has left, outermost first, 0 for the
\* levels not entered
RankAt(i) ==
    IF i = 0 THEN MainLeft
    ELSE IF i <= Len(stack) THEN StepsLeft(stack[i])
    ELSE 0

\* the step lowers the rank in the lexicographic order
RankFalls ==
    \E k \in 0..(depth0 + 1) :
        /\ RankAt(k)' < RankAt(k)
        /\ \A j \in 0..(k - 1) : RankAt(j)' = RankAt(j)

\* C20: every step of the run lowers a rank in the lexicographic order of
\* tuples of natural numbers, so no run goes on for ever, whatever the cycles
\* among the categories and whichever requests fail: each invocation returns
\* or is left by an error, and main gets through its pairs; the rank counts,
\* for main and for each invocation, the requests and members left, and the
\* stack never is deeper than the depth main was called with plus one
C20_Terminates ==
    [][/\ Len(stack') <= depth0 + 1
       /\ \A k \in 0..(depth0 + 1) : RankAt(k)' >= 0
       /\ RankFalls
      ]_vars

\* the run is over: the categories, which list each other in cycles, were
\* crawled two levels down, a listing failed on the way and the pairs after
\* it were crawled
C20_Witness ==
    /\ pc = "done"
    /\ depth0 = 2
    /\ \E r \in Records : Len(r.category_path) = 3
    /\ \E i \in 1..Len(mlog) :
          /\ mlog[i].ev = "error"
          /\ \E j \in (i + 1)..Len(mlog) : mlog[j].ev = "call"

====
